---------------------------- MODULE Spec2Model ----------------------------
(***************************************************************************)
(* The live service graph of the supervisor daemon                         *)
(* (src/src/ks-svc/src/live_service_graph.rs, live_service.rs): per-cell   *)
(* status, the graph readers-writer lock, the per-cell readers-writer      *)
(* locks, and the start tasks (start_all_services, start_service,          *)
(* start_dependencies, start_service_impl, wait_on_deps, get_status) cut   *)
(* at their await points.  Two further specifications cover                *)
(* LiveService::wait_on_status under concurrent change_status calls        *)
(* (SpecWait) and the enable and disable commands of the control tool      *)
(* (ctl/src/command/enable_command.rs, disable_command.rs) on the          *)
(* persisted graph file (SpecCtl); FairSpec is start_service under a fair  *)
(* executor.                                                               *)
(***************************************************************************)
EXTENDS Naturals, Sequences, FiniteSets, TLC

(***************************************************************************)
(* Bounds of the model.                                                    *)
(***************************************************************************)
\* number of StartService requests (top-level calls of start_service)
MaxRequests == 2
\* number of stop requests
MaxStops == 1
\* number of tasks calling wait_on_status on one cell
MaxWaiters == 2
\* number of change_status calls made while they wait
MaxChanges == 3
\* length of the argument list of enable and disable
MaxArgs == 3

(***************************************************************************)
(* ServiceStatus, live_service.rs:13-19.                                   *)
(***************************************************************************)
ServiceStatus == {"Reset", "Up", "Down", "Starting", "Stopping"}

\* The value of Option<ServiceStatus>::None (last_status, get_status).
None == "None"

(***************************************************************************)
(* The persisted dependency graphs the live graph is constructed from.     *)
(* Names are unique, every dependency resolves, and there is no cycle.     *)
(* live_services keeps the nodes in iteration order; indexes maps a name   *)
(* to its position (live_service_graph.rs:41-60).                          *)
(***************************************************************************)
Services == {"a", "b", "c", "d"}

live_services == <<"a", "b", "c", "d">>

indexes == [n \in Services |-> CHOOSE i \in DOMAIN live_services : live_services[i] = n]

\* a depends on b and c, b depends on c: c is a shared dependency.
Diamond ==
    [a |-> [kind |-> "Longrun", dependencies |-> <<"b", "c">>],
     b |-> [kind |-> "Oneshot", dependencies |-> <<"c">>],
     c |-> [kind |-> "Longrun", dependencies |-> <<>>],
     d |-> [kind |-> "Virtual", dependencies |-> <<>>]]

\* a and b both depend on c.
Fork ==
    [a |-> [kind |-> "Oneshot", dependencies |-> <<"c">>],
     b |-> [kind |-> "Longrun", dependencies |-> <<"c">>],
     c |-> [kind |-> "Oneshot", dependencies |-> <<>>],
     d |-> [kind |-> "Virtual", dependencies |-> <<>>]]

\* a bundle and a virtual service over one runnable service.
Grouping ==
    [a |-> [kind |-> "Bundle", dependencies |-> <<"c">>],
     b |-> [kind |-> "Virtual", dependencies |-> <<>>],
     c |-> [kind |-> "Oneshot", dependencies |-> <<>>],
     d |-> [kind |-> "Virtual", dependencies |-> <<>>]]

\* a depends on b and c, and b depends on the bundle d.
Nested ==
    [a |-> [kind |-> "Oneshot", dependencies |-> <<"b", "c">>],
     b |-> [kind |-> "Oneshot", dependencies |-> <<"d">>],
     c |-> [kind |-> "Oneshot", dependencies |-> <<>>],
     d |-> [kind |-> "Bundle", dependencies |-> <<>>]]

Graphs == {Diamond, Fork, Grouping, Nested}

\* The services of Fork that depend on the shared dependency c.
Dependents == <<"a", "b">>

\* What is asked of the daemon in a run: whether start_all_services is
\* called at boot, the cells the StartService requests name, in the order
\* the requests arrive, and how many stop requests arrive.  Either the
\* daemon boots a graph, or both dependents of a shared dependency are
\* requested, or the top of the diamond or of the nested graph is, or one
\* service without dependencies is requested MaxRequests times or once.
\* Stop requests arrive in the runs on the graphs with a bundle and in the
\* runs with one request.
Plans ==
    {[graph |-> g, boot |-> TRUE, targets |-> <<>>, stops |-> 0] : g \in {Diamond, Fork}}
    \cup {[graph |-> g, boot |-> TRUE, targets |-> <<>>, stops |-> MaxStops] :
            g \in {Grouping, Nested}}
    \cup {[graph |-> Fork, boot |-> FALSE, targets |-> Dependents, stops |-> 0]}
    \cup {[graph |-> Diamond, boot |-> FALSE, targets |-> <<"a">>, stops |-> 0]}
    \cup {[graph |-> Nested, boot |-> FALSE, targets |-> <<"a">>, stops |-> MaxStops]}
    \cup {[graph |-> Fork, boot |-> FALSE, targets |-> [k \in 1 .. MaxRequests |-> "c"],
           stops |-> 0]}
    \cup {[graph |-> Fork, boot |-> FALSE, targets |-> <<"c">>, stops |-> MaxStops]}

(***************************************************************************)
(* Tasks.  Task 0 is the caller of start_all_services; task i in           *)
(* 1..Len(live_services) is the task start_all_services spawns for the     *)
(* cell at position i; the remaining tasks serve StartService requests.    *)
(***************************************************************************)
MainTask == 0
SpawnedTasks == 1 .. Len(live_services)
RequestTasks ==
    (Len(live_services) + 1) ..
        (Len(live_services) + IF MaxRequests > Len(Dependents)
                              THEN MaxRequests ELSE Len(Dependents))
Tasks == SpawnedTasks \cup RequestTasks
AllTasks == {MainTask} \cup Tasks

VARIABLES
    plan,         \* the run's plan, one of Plans
    node,         \* the graph in use: name -> [kind, dependencies]
    status,       \* LiveService.status of each cell
    last_status,  \* LiveService.last_status of each cell
    waiters,      \* per cell: tasks holding a notifier that has not fired yet
    executors,    \* per cell: executor children spawned and not yet reported
    rundir,       \* cells whose runtime service directory has been created
    tstate,       \* per task: "idle", "running", "done" or "panicked"
    stack,        \* per task: call stack of frames [cell, pc, i]
    held,         \* per task: lock guards held, in acquisition order
    main,         \* start_all_services: [pc, j]
    writer,       \* TRUE while reload holds the graph write lock
    stops,        \* stop requests made so far
    wpc,          \* per waiter: position in wait_on_status
    wret,         \* per waiter: the status wait_on_status returned
    mutex,        \* holder of the cell's status Mutex in wait_on_status runs
    changes,      \* change_status calls made in wait_on_status runs
    pending,      \* the status a change_status call in progress will set
    ctl,          \* the run of the control tool: command, arguments, position
    file,         \* the persisted graph file: name -> node, or Absent
    ipc,          \* requests the control tool has sent to the daemon
    stdout,       \* services the control tool has reported on stdout
    service_file, \* per cell: the service file in its runtime directory
    queued        \* TRUE while reload waits for the graph write lock

\* The state of the callers of wait_on_status.
waitVars == <<wpc, wret, mutex, changes, pending>>

\* The state of the control tool and of what it acts on.
ctlVars == <<ctl, file, ipc, stdout>>

vars == <<plan, node, status, last_status, waiters, executors, rundir, tstate,
          stack, held, main, writer, stops, wpc, wret, mutex, changes, ctl,
          file, ipc, stdout, service_file, queued, pending>>

cellVars == <<status, last_status, waiters>>

(***************************************************************************)
(* Lock guards.  GraphRead is a read guard of LiveServiceGraph             *)
(* .live_services; CellRead(c) / CellWrite(c) are guards of the cell's     *)
(* RwLock<LiveService>.                                                    *)
(***************************************************************************)
GraphRead == [res |-> "graph", mode |-> "r"]
CellRead(c) == [res |-> c, mode |-> "r"]
CellWrite(c) == [res |-> c, mode |-> "w"]

HeldBy(t) == {held[t][i] : i \in DOMAIN held[t]}

\* RwLock::read on a cell is granted when no write guard of it is out.
CanReadCell(c) == \A t \in AllTasks : CellWrite(c) \notin HeldBy(t)

\* RwLock::write on a cell is granted when no guard of it is out.
CanWriteCell(c) ==
    \A t \in AllTasks : CellRead(c) \notin HeldBy(t) /\ CellWrite(c) \notin HeldBy(t)

\* RwLock::read on the graph is granted when the write guard is not out
\* and no writer waits for it: the lock prefers writers, also over a task
\* that already holds a read guard.
CanReadGraph == ~writer /\ ~queued

\* RwLock::write on the graph is granted when no read guard is out.
CanWriteGraph == ~writer /\ \A t \in AllTasks : GraphRead \notin HeldBy(t)

\* The guard sequence h after dropping the most recent guard equal to g.
RECURSIVE Drop(_, _)
Drop(h, g) ==
    IF h = <<>> THEN <<>>
    ELSE IF h[Len(h)] = g THEN SubSeq(h, 1, Len(h) - 1)
    ELSE Append(Drop(SubSeq(h, 1, Len(h) - 1), g), h[Len(h)])


(***************************************************************************)
(* Service, as far as the graph reads it.                                  *)
(***************************************************************************)
\* Service::should_start: Oneshot and Longrun start, Bundle and Virtual do not.
ShouldStart(c) == node[c].kind \in {"Oneshot", "Longrun"}

\* Service::dependencies
Dependencies(c) == node[c].dependencies

\* A match that selects an executor helper for every kind of service.
ExeForAnyKind(c) ==
    IF node[c].kind = "Longrun" THEN "ks-run-longrun" ELSE "ks-run-oneshot"

\* The executor helper start_service_impl selects (live_service_graph.rs:139-144).
Exe(c) ==
    CASE node[c].kind = "Oneshot" -> "ks-run-oneshot"
      [] node[c].kind = "Longrun" -> "ks-run-longrun"
      [] OTHER -> None

(***************************************************************************)
(* LiveService (live_service.rs).                                          *)
(***************************************************************************)
\* change_status recording the previous status whatever it is.
LastStatusAfterAlways(cur, last) == cur

\* change_status with the Stopping arm of the match left out.
LastStatusAfterSkipStarting(cur, last) ==
    IF cur = "Starting" THEN last ELSE cur

\* change_status, lines 58-64: the value of last_status after a change made
\* while the status is cur.
LastStatusAfter(cur, last) ==
    IF cur \in {"Starting", "Stopping"} THEN last ELSE cur

\* change_status: record the previous status, set the new one, notify_all.
ChangeStatus(c, new_status) ==
    /\ last_status' = [last_status EXCEPT ![c] = LastStatusAfter(status[c], @)]
    /\ status' = [status EXCEPT ![c] = new_status]
    /\ waiters' = [waiters EXCEPT ![c] = {}]

\* LiveService::get_status: the status when it is terminal, otherwise None.
GetStatus(c) == IF status[c] \in {"Up", "Down"} THEN status[c] ELSE None

(***************************************************************************)
(* Task control.                                                           *)
(***************************************************************************)
Frame(c, pc) == [cell |-> c, pc |-> pc, i |-> 0]

Top(t) == stack[t][Len(stack[t])]

At(t, pc) == tstate[t] = "running" /\ stack[t] # <<>> /\ Top(t).pc = pc

\* The cell of the dependency the top frame of t is working on, looked up
\* through indexes (lines 113-115 and 175-177).
Dep(t) == live_services[indexes[Dependencies(Top(t).cell)[Top(t).i]]]

Goto(t, pc) ==
    /\ stack' = [stack EXCEPT ![t][Len(stack[t])].pc = pc]
    /\ tstate' = tstate

\* Continue the loop over the dependencies at index i, or leave it.
LoopTo(t, i, loopPc, exitPc) ==
    /\ stack' = [stack EXCEPT ![t][Len(stack[t])] =
                    [cell |-> Top(t).cell,
                     pc |-> IF i <= Len(Dependencies(Top(t).cell))
                            THEN loopPc ELSE exitPc,
                     i |-> i]]
    /\ tstate' = tstate

\* Return from the top frame; the task is done when it was the last one.
Return(t) ==
    /\ stack' = [stack EXCEPT ![t] = SubSeq(@, 1, Len(@) - 1)]
    /\ tstate' = [tstate EXCEPT ![t] = IF Len(stack[t]) = 1 THEN "done" ELSE @]

Acquire(t, g) == held' = [held EXCEPT ![t] = Append(@, g)]

Release(t, g) == held' = [held EXCEPT ![t] = Drop(@, g)]

\* A panic unwinds the whole task: every guard it holds is dropped.
Unwind(t) ==
    /\ tstate' = [tstate EXCEPT ![t] = "panicked"]
    /\ stack' = [stack EXCEPT ![t] = <<>>]
    /\ held' = [held EXCEPT ![t] = <<>>]

(***************************************************************************)
(* start_service (live_service_graph.rs:84-98).                            *)
(***************************************************************************)
\* live_service.write().await
SsWrite(t) ==
    /\ At(t, "ss_write")
    /\ CanWriteCell(Top(t).cell)
    /\ Acquire(t, CellWrite(Top(t).cell))
    /\ Goto(t, "ss_change")
    /\ UNCHANGED <<waitVars, ctlVars, plan, node, cellVars, executors, rundir, service_file, main, writer, queued, stops>>

\* .change_status(ServiceStatus::Starting).await; the write guard is dropped
\* at the end of the statement.
SsChange(t) ==
    /\ At(t, "ss_change")
    /\ ChangeStatus(Top(t).cell, "Starting")
    /\ Release(t, CellWrite(Top(t).cell))
    /\ Goto(t, "sd_read")
    /\ UNCHANGED <<waitVars, ctlVars, plan, node, executors, rundir, service_file, main, writer, queued, stops>>

(***************************************************************************)
(* start_dependencies (live_service_graph.rs:100-131).  The futures of the *)
(* dependencies are created by map/collect and awaited one after the       *)
(* other in the for loop: each one runs only while it is awaited.          *)
(***************************************************************************)
\* let live_service = live_service.read().await
SdRead(t) ==
    /\ At(t, "sd_read")
    /\ CanReadCell(Top(t).cell)
    /\ Acquire(t, CellRead(Top(t).cell))
    /\ Goto(t, "sd_deps")
    /\ UNCHANGED <<waitVars, ctlVars, plan, node, cellVars, executors, rundir, service_file, main, writer, queued, stops>>

\* dependencies().to_owned(); the read guard is dropped at the end of the block
SdDeps(t) ==
    /\ At(t, "sd_deps")
    /\ Release(t, CellRead(Top(t).cell))
    /\ LoopTo(t, 1, "sd_graph", "wd_read")
    /\ UNCHANGED <<waitVars, ctlVars, plan, node, cellVars, executors, rundir, service_file, main, writer, queued, stops>>

\* let services = self.live_services.read().await
SdGraph(t) ==
    /\ At(t, "sd_graph")
    /\ CanReadGraph
    /\ Acquire(t, GraphRead)
    /\ Goto(t, "sd_dep_read")
    /\ UNCHANGED <<waitVars, ctlVars, plan, node, cellVars, executors, rundir, service_file, main, writer, queued, stops>>

\* let lock = dep_service.read().await
SdDepRead(t) ==
    /\ At(t, "sd_dep_read")
    /\ CanReadCell(Dep(t))
    /\ Acquire(t, CellRead(Dep(t)))
    /\ Goto(t, "sd_check")
    /\ UNCHANGED <<waitVars, ctlVars, plan, node, cellVars, executors, rundir, service_file, main, writer, queued, stops>>

\* lines 118-121: whether the dependency has to be started
NeedsStart(c) == status[c] \notin {"Up", "Starting", "Stopping"}

\* res is computed and the dependency's guard dropped; if res, start_service
\* is called on the dependency while the graph read guard is still held.
SdCheck(t) ==
    /\ At(t, "sd_check")
    /\ Release(t, CellRead(Dep(t)))
    /\ stack' = [stack EXCEPT ![t] =
                    LET caller == [@ EXCEPT ![Len(@)].pc = "sd_ret"]
                    IN  IF NeedsStart(Dep(t))
                        THEN Append(caller, Frame(Dep(t), "ss_write"))
                        ELSE caller]
    /\ UNCHANGED <<waitVars, ctlVars, plan, node, cellVars, executors, rundir, service_file, tstate, main, writer, queued, stops>>

\* end of the closure: the graph read guard is dropped; next dependency
SdRet(t) ==
    /\ At(t, "sd_ret")
    /\ Release(t, GraphRead)
    /\ LoopTo(t, Top(t).i + 1, "sd_graph", "wd_read")
    /\ UNCHANGED <<waitVars, ctlVars, plan, node, cellVars, executors, rundir, service_file, main, writer, queued, stops>>

(***************************************************************************)
(* wait_on_deps (live_service_graph.rs:196-212) and get_status (170-194).  *)
(***************************************************************************)
\* let live_service = live_service.read().await
WdRead(t) ==
    /\ At(t, "wd_read")
    /\ CanReadCell(Top(t).cell)
    /\ Acquire(t, CellRead(Top(t).cell))
    /\ Goto(t, "wd_deps")
    /\ UNCHANGED <<waitVars, ctlVars, plan, node, cellVars, executors, rundir, service_file, main, writer, queued, stops>>

\* wait_on_deps keeping the cell's read guard while it waits.
WdDepsKeepGuard(t) ==
    /\ At(t, "wd_deps")
    /\ held' = held
    /\ LoopTo(t, 1, "gs_graph", "impl_read")
    /\ UNCHANGED <<waitVars, ctlVars, plan, node, cellVars, executors, rundir, service_file, main, writer, queued, stops>>

\* dependencies().to_owned(); the read guard is dropped at the end of the block
WdDeps(t) ==
    /\ At(t, "wd_deps")
    /\ Release(t, CellRead(Top(t).cell))
    /\ LoopTo(t, 1, "gs_graph", "impl_read")
    /\ UNCHANGED <<waitVars, ctlVars, plan, node, cellVars, executors, rundir, service_file, main, writer, queued, stops>>

\* get_status: let services = self.live_services.read().await
GsGraph(t) ==
    /\ At(t, "gs_graph")
    /\ CanReadGraph
    /\ Acquire(t, GraphRead)
    /\ Goto(t, "gs_read")
    /\ UNCHANGED <<waitVars, ctlVars, plan, node, cellVars, executors, rundir, service_file, main, writer, queued, stops>>

\* let dep_service = dep_service_rw.read().await
GsRead(t) ==
    /\ At(t, "gs_read")
    /\ CanReadCell(Dep(t))
    /\ Acquire(t, CellRead(Dep(t)))
    /\ Goto(t, "gs_status")
    /\ UNCHANGED <<waitVars, ctlVars, plan, node, cellVars, executors, rundir, service_file, main, writer, queued, stops>>

\* let status = dep_service.get_status().await; Some(status) is returned,
\* None goes on to the notifier.
GsStatus(t) ==
    /\ At(t, "gs_status")
    /\ Release(t, CellRead(Dep(t)))
    /\ Goto(t, IF GetStatus(Dep(t)) # None THEN "gs_ret" ELSE "gs_nread")
    /\ UNCHANGED <<waitVars, ctlVars, plan, node, cellVars, executors, rundir, service_file, main, writer, queued, stops>>

\* get_status returns and drops the graph read guard; wait_on_deps discards
\* the status (line 210) and awaits the next dependency.
GsRet(t) ==
    /\ At(t, "gs_ret")
    /\ Release(t, GraphRead)
    /\ LoopTo(t, Top(t).i + 1, "gs_graph", "impl_read")
    /\ UNCHANGED <<waitVars, ctlVars, plan, node, cellVars, executors, rundir, service_file, main, writer, queued, stops>>

\* line 186: let dep_service = dep_service_rw.read().await
GsNotifierRead(t) ==
    /\ At(t, "gs_nread")
    /\ CanReadCell(Dep(t))
    /\ Acquire(t, CellRead(Dep(t)))
    /\ Goto(t, "gs_notifier")
    /\ UNCHANGED <<waitVars, ctlVars, plan, node, cellVars, executors, rundir, service_file, main, writer, queued, stops>>

\* line 187: the notifier is taken and the guard dropped
GsNotifier(t) ==
    /\ At(t, "gs_notifier")
    /\ waiters' = [waiters EXCEPT ![Dep(t)] = @ \cup {t}]
    /\ Release(t, CellRead(Dep(t)))
    /\ Goto(t, "gs_wait")
    /\ UNCHANGED <<waitVars, ctlVars, plan, node, status, last_status, executors, rundir, service_file, main, writer, queued, stops>>

\* line 189: notifier.notified().await completes at the next status change
GsNotified(t) ==
    /\ At(t, "gs_wait")
    /\ t \notin waiters[Dep(t)]
    /\ Goto(t, "gs_reread")
    /\ UNCHANGED <<waitVars, ctlVars, plan, node, cellVars, executors, rundir, service_file, held, main, writer, queued, stops>>

\* line 190: let dep_service = dep_service_rw.read().await
GsReread(t) ==
    /\ At(t, "gs_reread")
    /\ CanReadCell(Dep(t))
    /\ Acquire(t, CellRead(Dep(t)))
    /\ Goto(t, "gs_unwrap")
    /\ UNCHANGED <<waitVars, ctlVars, plan, node, cellVars, executors, rundir, service_file, main, writer, queued, stops>>

\* lines 191-192: the status read again is discarded and status.unwrap() is
\* called on the None read before the wait: the task panics.
GsUnwrap(t) ==
    /\ At(t, "gs_unwrap")
    /\ Unwind(t)
    /\ UNCHANGED <<waitVars, ctlVars, plan, node, cellVars, executors, rundir, service_file, main, writer, queued, stops>>

(***************************************************************************)
(* start_service_impl after wait_on_deps (live_service_graph.rs:138-167).  *)
(***************************************************************************)
\* let live_service = live_service.read().await
ImplRead(t) ==
    /\ At(t, "impl_read")
    /\ CanReadCell(Top(t).cell)
    /\ Acquire(t, CellRead(Top(t).cell))
    /\ Goto(t, "impl_match")
    /\ UNCHANGED <<waitVars, ctlVars, plan, node, cellVars, executors, rundir, service_file, main, writer, queued, stops>>

\* lines 139-145: Bundle and Virtual give None and the function returns
\* Ok(()); Oneshot and Longrun go on to the launch.
ImplMatch(t) ==
    /\ At(t, "impl_match")
    /\ IF Exe(Top(t).cell) = None
       THEN Release(t, CellRead(Top(t).cell)) /\ Return(t)
       ELSE Goto(t, "impl_config") /\ held' = held
    /\ UNCHANGED <<waitVars, ctlVars, plan, node, cellVars, executors, rundir, service_file, main, writer, queued, stops>>

\* A read guard of the global CONFIG lock.
ConfigRead == [res |-> "config", mode |-> "r"]

\* line 146: let config = CONFIG.read().await; nothing writes CONFIG while
\* the daemon runs.
ImplConfig(t) ==
    /\ At(t, "impl_config")
    /\ Acquire(t, ConfigRead)
    /\ Goto(t, "impl_create_dir")
    /\ UNCHANGED <<waitVars, ctlVars, plan, node, cellVars, executors, rundir, service_file, main, writer, queued, stops>>

\* line 153: fs::create_dir_all(&runtime_service_dir).await.unwrap()
ImplCreateDir(t, ok) ==
    /\ At(t, "impl_create_dir")
    /\ IF ok
       THEN /\ rundir' = rundir \cup {Top(t).cell}
            /\ Goto(t, "impl_create") /\ held' = held
       ELSE /\ rundir' = rundir
            /\ Unwind(t)
    /\ UNCHANGED <<waitVars, ctlVars, plan, node, cellVars, executors, service_file, main, writer, queued, stops>>

\* The service file of a cell: what it holds, and the writes handed to the
\* runtime that have not been carried out yet.
ServiceFile(content, writes) == [content |-> content, writes |-> writes]

\* line 155: File::create(service_path).await.unwrap(); the file is created
\* or truncated.
ImplCreate(t, ok) ==
    /\ At(t, "impl_create")
    /\ IF ok
       THEN /\ service_file' = [service_file EXCEPT ![Top(t).cell].content = "empty"]
            /\ Goto(t, "impl_write") /\ held' = held
       ELSE /\ service_file' = service_file
            /\ Unwind(t)
    /\ UNCHANGED <<waitVars, ctlVars, plan, node, cellVars, executors, rundir, main, writer, queued, stops>>

\* lines 156-157: ser_res.unwrap() and file.write(&buf).await.unwrap().
\* write hands the bytes to the runtime, which writes them in the
\* background, and returns Ok at once: the file is as it was when the task
\* goes on.  The unwraps panic when the serialization failed or the
\* runtime is shutting down.
ImplWrite(t, ok) ==
    /\ At(t, "impl_write")
    /\ IF ok
       THEN /\ service_file' = [service_file EXCEPT ![Top(t).cell].writes = @ + 1]
            /\ Goto(t, "impl_spawn") /\ held' = held
       ELSE /\ service_file' = service_file
            /\ Unwind(t)
    /\ UNCHANGED <<waitVars, ctlVars, plan, node, cellVars, executors, rundir, main, writer, queued, stops>>

\* What becomes of a write in the background: all bytes are written, or
\* only the first 2 MiB of them (write, not write_all), or the write fails
\* and nobody is told.
WriteResults == {"written", "partial", "failed"}

\* line 157, in the background: a write handed over by file.write is
\* carried out.
FileWrite(c, result) ==
    /\ service_file[c].writes > 0
    /\ service_file' = [service_file EXCEPT ![c] =
                            ServiceFile(IF result = "failed" THEN @.content ELSE result,
                                        @.writes - 1)]
    /\ UNCHANGED <<waitVars, ctlVars, plan, node, cellVars, executors, rundir, tstate, stack, held, main, writer, queued, stops>>

\* lines 159-167: Command::new(exe)...spawn().unwrap(); then the guards are
\* dropped and Ok(()) is returned.
ImplSpawn(t, ok) ==
    /\ At(t, "impl_spawn")
    /\ IF ok
       THEN /\ executors' = [executors EXCEPT ![Top(t).cell] = @ + 1]
            /\ held' = [held EXCEPT ![t] = Drop(Drop(@, ConfigRead), CellRead(Top(t).cell))]
            /\ Return(t)
       ELSE /\ executors' = executors
            /\ Unwind(t)
    /\ UNCHANGED <<waitVars, ctlVars, plan, node, cellVars, rundir, service_file, main, writer, queued, stops>>

(***************************************************************************)
(* start_all_services (live_service_graph.rs:62-82).                       *)
(***************************************************************************)
\* lines 63-78: the graph read guard is taken and one task is spawned for
\* every cell.
StartAll ==
    /\ plan.boot
    /\ main.pc = "idle"
    /\ CanReadGraph
    /\ Acquire(MainTask, GraphRead)
    /\ tstate' = [t \in Tasks |-> IF t \in SpawnedTasks THEN "running" ELSE tstate[t]]
    /\ stack' = [t \in Tasks |->
                    IF t \in SpawnedTasks
                    THEN <<Frame(live_services[t], "sa_read")>> ELSE stack[t]]
    /\ main' = [pc |-> "join", j |-> 1]
    /\ UNCHANGED <<waitVars, ctlVars, plan, node, cellVars, executors, rundir, service_file, writer, queued, stops>>

\* line 70: let live_service = live_service.read().await
SaRead(t) ==
    /\ At(t, "sa_read")
    /\ CanReadCell(Top(t).cell)
    /\ Acquire(t, CellRead(Top(t).cell))
    /\ Goto(t, "sa_should")
    /\ UNCHANGED <<waitVars, ctlVars, plan, node, cellVars, executors, rundir, service_file, main, writer, queued, stops>>

\* lines 71-75: should_start is read and the guard dropped; a service that
\* should start goes to start_service_impl.
SaShould(t) ==
    /\ At(t, "sa_should")
    /\ Release(t, CellRead(Top(t).cell))
    /\ IF ShouldStart(Top(t).cell) THEN Goto(t, "wd_read") ELSE Return(t)
    /\ UNCHANGED <<waitVars, ctlVars, plan, node, cellVars, executors, rundir, service_file, main, writer, queued, stops>>

\* lines 79-81: future.await.unwrap() on the tasks in order.  A task that
\* panicked makes unwrap panic; after the last join the function returns.
\* Either way the graph read guard is dropped.
Join ==
    /\ main.pc = "join"
    /\ tstate[main.j] \in {"done", "panicked"}
    /\ IF tstate[main.j] = "panicked"
       THEN main' = [main EXCEPT !.pc = "panicked"] /\ Release(MainTask, GraphRead)
       ELSE IF main.j = Len(live_services)
       THEN main' = [main EXCEPT !.pc = "returned"] /\ Release(MainTask, GraphRead)
       ELSE main' = [main EXCEPT !.j = @ + 1] /\ held' = held
    /\ UNCHANGED <<waitVars, ctlVars, plan, node, cellVars, executors, rundir, service_file, tstate, stack, writer, queued, stops>>

(***************************************************************************)
(* The callers of the graph and of the cells.                              *)
(***************************************************************************)
\* The next StartService request arrives: start_service is called on the
\* cell it names.
StartRequest(t) ==
    /\ t \in RequestTasks
    /\ tstate[t] = "idle"
    /\ \A u \in RequestTasks : u < t => tstate[u] # "idle"
    /\ t - Len(live_services) \in DOMAIN plan.targets
    /\ tstate' = [tstate EXCEPT ![t] = "running"]
    /\ stack' = [stack EXCEPT ![t] =
                    <<Frame(plan.targets[t - Len(live_services)], "ss_write")>>]
    /\ UNCHANGED <<waitVars, ctlVars, plan, node, cellVars, executors, rundir, service_file, held, main, writer, queued, stops>>

\* An executor child reports readiness/success (Up) or failure (Down):
\* change_status under the cell's write lock.
ExecutorReport(c, result) ==
    /\ executors[c] > 0
    /\ CanWriteCell(c)
    /\ executors' = [executors EXCEPT ![c] = @ - 1]
    /\ ChangeStatus(c, result)
    /\ UNCHANGED <<waitVars, ctlVars, plan, node, rundir, service_file, tstate, stack, held, main, writer, queued, stops>>

\* A stop request moves a cell that is Up, or whose start is in flight, to
\* Stopping.
StopRequest(c) ==
    /\ stops < plan.stops
    /\ status[c] \in {"Up", "Starting"}
    /\ CanWriteCell(c)
    /\ stops' = stops + 1
    /\ ChangeStatus(c, "Stopping")
    /\ UNCHANGED <<waitVars, ctlVars, plan, node, executors, rundir, service_file, tstate, stack, held, main, writer, queued>>

\* The stop completes: the supervisor has exited and the cell is Down.
StopDone(c) ==
    /\ status[c] = "Stopping"
    /\ CanWriteCell(c)
    /\ executors' = [executors EXCEPT ![c] = 0]
    /\ ChangeStatus(c, "Down")
    /\ UNCHANGED <<waitVars, ctlVars, plan, node, rundir, service_file, tstate, stack, held, main, writer, queued, stops>>

\* Reload asks for write access on the graph: live_services.write().await
\* is pending, and from now on no read guard is granted.
ReloadRequest ==
    /\ ~queued
    /\ ~writer
    /\ queued' = TRUE
    /\ UNCHANGED <<waitVars, ctlVars, plan, node, cellVars, executors, rundir, service_file, tstate, stack, held, main, writer, stops>>

\* The write guard is granted once no read guard is out.
ReloadAcquire ==
    /\ queued
    /\ CanWriteGraph
    /\ writer' = TRUE
    /\ queued' = FALSE
    /\ UNCHANGED <<waitVars, ctlVars, plan, node, cellVars, executors, rundir, service_file, tstate, stack, held, main, stops>>

ReloadRelease ==
    /\ writer
    /\ writer' = FALSE
    /\ UNCHANGED <<waitVars, ctlVars, plan, node, cellVars, executors, rundir, service_file, tstate, stack, held, main, queued, stops>>

(***************************************************************************)
(* LiveService::wait_on_status, live_service.rs:70-78, called by           *)
(* MaxWaiters tasks on one cell while change_status is called on it.       *)
(* wait_on_status borrows the LiveService for the whole wait, so its       *)
(* caller keeps a read guard of the cell from the call to the return;      *)
(* change_status takes &mut self, so its caller needs the write guard, and *)
(* while it waits for it no further read guard is granted.  wait_until     *)
(* takes the guard of the status Mutex, and as long as the predicate does  *)
(* not hold of the status it gives the guard up, waits on the Condvar and  *)
(* takes the Mutex again.                                                  *)
(***************************************************************************)
Waiters == 1 .. MaxWaiters

\* The cell the waiters wait on.
WaitCell == "a"

\* The task that calls change_status.
Changer == MainTask

\* The Mutex is free.
Free == 0

\* What the wait_on_status runs leave alone.
waitRest == <<ctlVars, plan, node, executors, rundir, service_file, tstate, stack,
              main, writer, queued, stops>>

\* The predicate handed to wait_until, live_service.rs:73-75.
WaitPredicateNotReset(st) == st # "Reset"

WaitPredicate(st) == st = "Up" \/ st = "Down"

\* The caller takes a read guard of the cell and calls wait_on_status.
WCall(w) ==
    /\ wpc[w] = "idle"
    /\ pending = None
    /\ CanReadCell(WaitCell)
    /\ Acquire(w, CellRead(WaitCell))
    /\ wpc' = [wpc EXCEPT ![w] = "lock"]
    /\ UNCHANGED <<wret, mutex, changes, pending, cellVars, waitRest>>

\* self.status.lock().await
WLock(w) ==
    /\ wpc[w] = "lock"
    /\ mutex = Free
    /\ mutex' = w
    /\ wpc' = [wpc EXCEPT ![w] = "check"]
    /\ UNCHANGED <<wret, changes, pending, cellVars, held, waitRest>>

\* wait_until evaluates the predicate under the guard.  When it holds, the
\* status is cloned, the guard dropped and the borrow of the cell ends;
\* otherwise the task gives the guard up and waits on the Condvar.
WCheck(w) ==
    /\ wpc[w] = "check"
    /\ mutex = w
    /\ mutex' = Free
    /\ IF WaitPredicate(status[WaitCell])
       THEN /\ wret' = [wret EXCEPT ![w] = status[WaitCell]]
            /\ wpc' = [wpc EXCEPT ![w] = "returned"]
            /\ waiters' = waiters
            /\ Release(w, CellRead(WaitCell))
       ELSE /\ wret' = wret
            /\ wpc' = [wpc EXCEPT ![w] = "waiting"]
            /\ waiters' = [waiters EXCEPT ![WaitCell] = @ \cup {w}]
            /\ held' = held
    /\ UNCHANGED <<changes, pending, status, last_status, waitRest>>

\* The waiter wakes up, notified or not.
WWake(w) ==
    /\ wpc[w] = "waiting"
    /\ waiters' = [waiters EXCEPT ![WaitCell] = @ \ {w}]
    /\ wpc' = [wpc EXCEPT ![w] = "relock"]
    /\ UNCHANGED <<wret, mutex, changes, pending, status, last_status, held, waitRest>>

\* The woken waiter takes the Mutex again; wait_until re-checks.
WRelock(w) ==
    /\ wpc[w] = "relock"
    /\ mutex = Free
    /\ mutex' = w
    /\ wpc' = [wpc EXCEPT ![w] = "check"]
    /\ UNCHANGED <<wret, changes, pending, cellVars, held, waitRest>>

\* A task asks for the write guard of the cell to call change_status.
WChangeCall(new_status) ==
    /\ changes < MaxChanges
    /\ pending = None
    /\ pending' = new_status
    /\ changes' = changes + 1
    /\ UNCHANGED <<wpc, wret, mutex, cellVars, held, waitRest>>

\* The write guard is granted once no guard of the cell is out.
WChangeWrite ==
    /\ pending # None
    /\ CanWriteCell(WaitCell)
    /\ Acquire(Changer, CellWrite(WaitCell))
    /\ UNCHANGED <<wpc, wret, mutex, changes, pending, cellVars, waitRest>>

\* change_status: it takes the Mutex, sets the status and notifies all
\* waiters; the write guard is dropped after the call.
WChangeStatus ==
    /\ CellWrite(WaitCell) \in HeldBy(Changer)
    /\ mutex = Free
    /\ ChangeStatus(WaitCell, pending)
    /\ pending' = None
    /\ Release(Changer, CellWrite(WaitCell))
    /\ UNCHANGED <<wpc, wret, mutex, changes, waitRest>>

WaitIdle ==
    /\ wpc = [w \in Waiters |-> "idle"]
    /\ wret = [w \in Waiters |-> None]
    /\ mutex = Free
    /\ changes = 0
    /\ pending = None

(***************************************************************************)
(* The control tool: EnableCommand::run (enable_command.rs:21-60) and      *)
(* DisableCommand::run (disable_command.rs:29-108) on the persisted graph  *)
(* file.  A persisted graph is given by the names of its nodes; the node   *)
(* of a name is the one the service catalog defines.                       *)
(***************************************************************************)
Names == {"x", "y", "z"}

RunLevels == {"Default", "Boot"}

\* The service definitions found in the service directories.
Catalog ==
    [x |-> [runlevel |-> "Default", dependencies |-> {}],
     y |-> [runlevel |-> "Default", dependencies |-> {"x"}],
     z |-> [runlevel |-> "Boot", dependencies |-> {}]]

\* The argument lists: Vec<String> services.
ArgLists == UNION {[1 .. n -> Names] : n \in 0 .. MaxArgs}

\* The names of an argument list.
Listed(services) == {services[i] : i \in DOMAIN services}

\* A graph file: absent, or holding a graph, or not deserializable.
GraphFile(nodes) == [exists |-> TRUE, intact |-> TRUE, nodes |-> nodes]
AbsentFile == [exists |-> FALSE, intact |-> TRUE, nodes |-> {}]
BrokenFile == [exists |-> TRUE, intact |-> FALSE, nodes |-> {}]

\* A graph holds the dependencies of each of its nodes.
Closed(nodes) == \A n \in nodes : Catalog[n].dependencies \subseteq nodes

Files ==
    {AbsentFile, BrokenFile} \cup {GraphFile(g) : g \in {h \in SUBSET Names : Closed(h)}}

\* The duplicate check of both commands: for i in 1..len, the slice from
\* position i on contains the element at position i - 1 (positions from 0).
DuplicatedAdjacent(services) ==
    \E i \in 1 .. (Len(services) - 1) : services[i + 1] = services[i]

Duplicated(services) ==
    \E i \in 1 .. (Len(services) - 1) :
        \E j \in (i + 1) .. Len(services) : services[j] = services[i]

\* DependencyGraph::disable_services: the listed nodes are removed unless
\* one of them is not in the graph or a node that stays depends on one.
CanDisable(graph, services) ==
    /\ Listed(services) \subseteq graph
    /\ \A n \in graph \ Listed(services) :
          Catalog[n].dependencies \cap Listed(services) = {}

DisableServices(graph, services) == graph \ Listed(services)

\* The names reachable from a set of names along dependencies.
RECURSIVE WithDependencies(_)
WithDependencies(names) ==
    IF Closed(names) THEN names
    ELSE WithDependencies(names \cup UNION {Catalog[n].dependencies : n \in names})

\* DependencyGraph::add_services: the listed services and their
\* dependencies become nodes of the graph.
AddServices(graph, services) == graph \cup WithDependencies(Listed(services))

\* The first listed service, in argument order, that fails the checks of
\* the atomic branch, or 0.
FirstRejected(graph, services, runlevel) ==
    IF \A i \in DOMAIN services :
          services[i] \in graph /\ Catalog[services[i]].runlevel = runlevel
    THEN 0
    ELSE CHOOSE i \in DOMAIN services :
            /\ ~(services[i] \in graph /\ Catalog[services[i]].runlevel = runlevel)
            /\ \A k \in 1 .. (i - 1) :
                  services[k] \in graph /\ Catalog[services[k]].runlevel = runlevel

\* The error of the ensure! on one service.
Rejection(graph, service) ==
    IF service \notin graph THEN "the service is not enabled"
    ELSE "service must be of the runlevel"

Running == "running"

\* A run of the control tool that has not begun.
Invocation(cmd, services, atomic_changes, runlevel, before) ==
    [cmd |-> cmd, services |-> services, atomic_changes |-> atomic_changes,
     runlevel |-> runlevel, pc |-> "check", graph |-> {}, i |-> 1,
     result |-> Running, before |-> before, read |-> FALSE, wrote |-> FALSE,
     connects |-> 0]

\* No run of the control tool.
NoInvocation == Invocation("none", <<>>, FALSE, "Default", AbsentFile)

\* The run ends with a result.
Finish(result) == [ctl EXCEPT !.pc = "done", !.result = result]

ctlRest == <<waitVars, plan, node, cellVars, executors, rundir, service_file,
             tstate, stack, held, main, writer, queued, stops>>

\* enable_command.rs:26-29 and disable_command.rs:34-37.
CheckDuplicates ==
    /\ ctl.cmd \in {"enable", "disable"}
    /\ ctl.pc = "check"
    /\ ctl' = IF Duplicated(ctl.services)
              THEN Finish("duplicated service found")
              ELSE [ctl EXCEPT !.pc = "read"]
    /\ UNCHANGED <<file, ipc, stdout, ctlRest>>

\* enable_command.rs:30-39: the graph is read when the file exists and is
\* new otherwise.
EnableRead ==
    /\ ctl.cmd = "enable"
    /\ ctl.pc = "read"
    /\ ctl' = IF ~file.exists THEN [ctl EXCEPT !.pc = "parse", !.graph = {}]
              ELSE IF ~file.intact
                   THEN [Finish("unable to deserialize the dependency graph")
                            EXCEPT !.read = TRUE]
                   ELSE [ctl EXCEPT !.pc = "parse", !.graph = file.nodes, !.read = TRUE]
    /\ UNCHANGED <<file, ipc, stdout, ctlRest>>

\* enable_command.rs:40-48: parse_services and add_services.
EnableAdd(parsed, added) ==
    /\ ctl.cmd = "enable"
    /\ ctl.pc = "parse"
    /\ ctl' = IF ~parsed THEN Finish("unable to parse services")
              ELSE IF ~added
                   THEN Finish("unable to add the parsed services")
                   ELSE [ctl EXCEPT !.pc = "write",
                                    !.graph = AddServices(@, ctl.services)]
    /\ UNCHANGED <<file, ipc, stdout, ctlRest>>

\* fs::write either writes the graph, or fails before the file is touched,
\* or fails after the file was truncated.
WriteOutcomes == {"written", "not_created", "truncated"}

WriteFile(outcome) ==
    /\ file' = CASE outcome = "written" -> GraphFile(ctl.graph)
                 [] outcome = "not_created" -> file
                 [] outcome = "truncated" -> BrokenFile
    /\ ctl' = IF outcome = "written"
              THEN IF ctl.cmd = "enable"
                   THEN [Finish("Ok") EXCEPT !.wrote = TRUE]
                   ELSE [ctl EXCEPT !.pc = "reload", !.wrote = TRUE]
              ELSE Finish("unable to write the dependency graph")

\* enable_command.rs:50-59: the file is written and the run returns Ok.
EnableWrite(outcome) ==
    /\ ctl.cmd = "enable"
    /\ ctl.pc = "write"
    /\ WriteFile(outcome)
    /\ UNCHANGED <<ipc, stdout, ctlRest>>

\* disable_command.rs:38-47.
DisableRead ==
    /\ ctl.cmd = "disable"
    /\ ctl.pc = "read"
    /\ ctl' = IF ~file.exists THEN Finish("the graph has not been initialized yet")
              ELSE IF ~file.intact
                   THEN [Finish("unable to deserialize the dependency graph")
                            EXCEPT !.read = TRUE]
                   ELSE [ctl EXCEPT !.pc = IF ctl.atomic_changes THEN "atomic" ELSE "each",
                                    !.graph = file.nodes, !.read = TRUE]
    /\ UNCHANGED <<file, ipc, stdout, ctlRest>>

\* disable_command.rs:48-68: every service is checked, then all are removed
\* from the graph in memory.
DisableAtomic ==
    /\ ctl.cmd = "disable"
    /\ ctl.pc = "atomic"
    /\ LET rejected == FirstRejected(ctl.graph, ctl.services, ctl.runlevel)
           ok == rejected = 0 /\ CanDisable(ctl.graph, ctl.services)
       IN /\ ctl' = IF rejected # 0
                    THEN Finish(Rejection(ctl.graph, ctl.services[rejected]))
                    ELSE IF ~ok
                         THEN Finish("unable to remove services")
                         ELSE [ctl EXCEPT !.pc = "write",
                                          !.graph = DisableServices(@, ctl.services)]
          /\ stdout' = IF ok THEN Append(stdout, "All") ELSE stdout
    /\ UNCHANGED <<file, ipc, ctlRest>>

\* disable_command.rs:70-91: one round of try_for_each, on the service at
\* position i; the first error ends the run.
DisableEachSkipping ==
    /\ ctl.cmd = "disable"
    /\ ctl.pc = "each"
    /\ ctl.i <= Len(ctl.services)
    /\ LET service == ctl.services[ctl.i]
           accepted == service \in ctl.graph /\ Catalog[service].runlevel = ctl.runlevel
           ok == accepted /\ CanDisable(ctl.graph, <<service>>)
       IN /\ ctl' = [ctl EXCEPT !.i = @ + 1,
                                !.pc = IF ctl.i = Len(ctl.services) THEN "write" ELSE "each",
                                !.graph = IF ok THEN DisableServices(@, <<service>>) ELSE @]
          /\ stdout' = IF ok THEN Append(stdout, service) ELSE stdout
    /\ UNCHANGED <<file, ipc, ctlRest>>

DisableEach ==
    /\ ctl.cmd = "disable"
    /\ ctl.pc = "each"
    /\ ctl.i <= Len(ctl.services)
    /\ LET service == ctl.services[ctl.i]
           accepted == service \in ctl.graph /\ Catalog[service].runlevel = ctl.runlevel
           ok == accepted /\ CanDisable(ctl.graph, <<service>>)
       IN /\ ctl' = IF ~accepted THEN Finish(Rejection(ctl.graph, service))
                    ELSE IF ~ok THEN Finish("unable to disable service")
                    ELSE [ctl EXCEPT !.i = @ + 1,
                                     !.pc = IF ctl.i = Len(ctl.services)
                                            THEN "write" ELSE "each",
                                     !.graph = DisableServices(@, <<service>>)]
          /\ stdout' = IF ok THEN Append(stdout, service) ELSE stdout
    /\ UNCHANGED <<file, ipc, ctlRest>>

\* try_for_each over no service at all.
DisableNone ==
    /\ ctl.cmd = "disable"
    /\ ctl.pc = "each"
    /\ ctl.i > Len(ctl.services)
    /\ ctl' = [ctl EXCEPT !.pc = "write"]
    /\ UNCHANGED <<file, ipc, stdout, ctlRest>>

\* disable_command.rs:94-98.
DisableWrite(outcome) ==
    /\ ctl.cmd = "disable"
    /\ ctl.pc = "write"
    /\ WriteFile(outcome)
    /\ UNCHANGED <<ipc, stdout, ctlRest>>

\* disable_command.rs:100-105 and connection.rs:32-40: the tool connects to
\* the socket of the daemon; when it cannot, it says so on stderr and the
\* run ends in success.
DisableConnect(reachable) ==
    /\ ctl.cmd = "disable"
    /\ ctl.pc = "reload"
    /\ ctl' = IF reachable
              THEN [ctl EXCEPT !.pc = "send", !.connects = @ + 1]
              ELSE [Finish("Ok") EXCEPT !.connects = @ + 1]
    /\ UNCHANGED <<file, ipc, stdout, ctlRest>>

\* What send can come to, connection.rs:42-54: write_all of the request
\* fails, or the write of the line end after it fails, or both are written.
SendOutcomes == {"write_failed", "newline_failed", "sent"}

\* A request on the socket, with or without its line end.
Record(request, terminated) == [request |-> request, terminated |-> terminated]

\* disable_command.rs:101-102 and connection.rs:42-61: send_request writes
\* the serialized request and the line end; an error fails the run.
DisableSend(outcome) ==
    /\ ctl.cmd = "disable"
    /\ ctl.pc = "send"
    /\ ipc' = CASE outcome = "write_failed" -> ipc
                [] outcome = "newline_failed" -> Append(ipc, Record("ReloadGraph", FALSE))
                [] outcome = "sent" -> Append(ipc, Record("ReloadGraph", TRUE))
    /\ ctl' = IF outcome = "sent" THEN [ctl EXCEPT !.pc = "recv"]
              ELSE Finish("request failed")
    /\ UNCHANGED <<file, stdout, ctlRest>>

\* What the answer can be, connection.rs:63-70: the read fails, or the
\* daemon answers with an error, or with success.
RecvOutcomes == {"read_failed", "error", "success"}

\* disable_command.rs:102 and connection.rs:63-70: the answer of the daemon
\* is read; an error fails the run.
DisableRecv(outcome) ==
    /\ ctl.cmd = "disable"
    /\ ctl.pc = "recv"
    /\ ctl' = Finish(IF outcome = "success" THEN "Ok" ELSE "request failed")
    /\ UNCHANGED <<file, ipc, stdout, ctlRest>>

CtlIdle ==
    /\ ctl = NoInvocation
    /\ file = AbsentFile
    /\ ipc = <<>>
    /\ stdout = <<>>

(***************************************************************************)
(* The specification.                                                      *)
(***************************************************************************)
\* LiveServiceGraph::new / LiveService::new: every cell is Reset with no
\* last_status; no task runs and no lock is held.
Constructed ==
    /\ node = plan.graph
    /\ status = [c \in Services |-> "Reset"]
    /\ last_status = [c \in Services |-> None]
    /\ waiters = [c \in Services |-> {}]
    /\ executors = [c \in Services |-> 0]
    /\ rundir = {}
    /\ service_file = [c \in Services |-> ServiceFile("absent", 0)]
    /\ queued = FALSE
    /\ tstate = [t \in Tasks |-> "idle"]
    /\ stack = [t \in Tasks |-> <<>>]
    /\ held = [t \in AllTasks |-> <<>>]
    /\ main = [pc |-> "idle", j |-> 0]
    /\ writer = FALSE
    /\ stops = 0

\* The daemon has constructed the graph of its plan; nobody waits on a
\* status and the control tool does not run.
Init ==
    /\ plan \in Plans
    /\ Constructed
    /\ WaitIdle
    /\ CtlIdle

TaskStep(t) ==
    \/ SsWrite(t) \/ SsChange(t)
    \/ SdRead(t) \/ SdDeps(t) \/ SdGraph(t) \/ SdDepRead(t) \/ SdCheck(t) \/ SdRet(t)
    \/ WdRead(t) \/ WdDeps(t)
    \/ GsGraph(t) \/ GsRead(t) \/ GsStatus(t) \/ GsRet(t)
    \/ GsNotifierRead(t) \/ GsNotifier(t) \/ GsNotified(t) \/ GsReread(t) \/ GsUnwrap(t)
    \/ ImplRead(t) \/ ImplMatch(t)
    \/ ImplConfig(t)
    \/ \E ok \in BOOLEAN : ImplCreateDir(t, ok)
    \/ \E ok \in BOOLEAN : ImplCreate(t, ok)
    \/ \E ok \in BOOLEAN : ImplWrite(t, ok)
    \/ \E ok \in BOOLEAN : ImplSpawn(t, ok)
    \/ SaRead(t) \/ SaShould(t)

Next ==
    \/ StartAll
    \/ Join
    \/ \E t \in Tasks : TaskStep(t)
    \/ \E t \in RequestTasks : StartRequest(t)
    \/ \E c \in Services, result \in WriteResults : FileWrite(c, result)
    \/ \E c \in Services, result \in {"Up", "Down"} : ExecutorReport(c, result)
    \/ \E c \in Services : StopRequest(c)
    \/ \E c \in Services : StopDone(c)
    \/ ReloadRequest
    \/ ReloadAcquire
    \/ ReloadRelease

Spec == Init /\ [][Next]_vars

\* The steps of a task that serves a StartService request.
RequestStep(t) ==
    \/ SsWrite(t) \/ SsChange(t)
    \/ SdRead(t) \/ SdDeps(t) \/ SdGraph(t) \/ SdDepRead(t) \/ SdCheck(t) \/ SdRet(t)
    \/ WdRead(t) \/ WdDeps(t)
    \/ GsGraph(t) \/ GsRead(t) \/ GsStatus(t) \/ GsRet(t)
    \/ GsNotifierRead(t) \/ GsNotifier(t) \/ GsNotified(t) \/ GsReread(t) \/ GsUnwrap(t)
    \/ ImplRead(t) \/ ImplMatch(t)
    \/ ImplConfig(t)
    \/ \E ok \in BOOLEAN : ImplCreateDir(t, ok)
    \/ \E ok \in BOOLEAN : ImplCreate(t, ok)
    \/ \E ok \in BOOLEAN : ImplWrite(t, ok)
    \/ \E ok \in BOOLEAN : ImplSpawn(t, ok)

\* A daemon that is asked to start the top of a graph.
InitRequests ==
    /\ plan \in {p \in Plans : ~p.boot /\ p.targets = <<"a">>}
    /\ Constructed
    /\ WaitIdle
    /\ CtlIdle

NextRequests ==
    \/ \E t \in RequestTasks : RequestStep(t)
    \/ \E t \in RequestTasks : StartRequest(t)
    \/ \E c \in Services, result \in WriteResults : FileWrite(c, result)
    \/ \E c \in Services, result \in {"Up", "Down"} : ExecutorReport(c, result)
    \/ \E c \in Services : StopRequest(c)
    \/ \E c \in Services : StopDone(c)
    \/ ReloadRequest
    \/ ReloadAcquire
    \/ ReloadRelease

\* The executor polls every task that can make progress, and the locks
\* serve their queues in order: a task that can step again and again does
\* step.  A task that waits for a read guard of the graph behind a queued
\* writer cannot step; when it holds a read guard itself, neither it nor
\* the writer ever moves again.  A writer is granted the free lock and
\* gives it back, and a stop that has begun completes.
Fairness ==
    /\ \A t \in RequestTasks : SF_vars(RequestStep(t))
    /\ WF_vars(ReloadAcquire)
    /\ WF_vars(ReloadRelease)
    /\ \A c \in Services : WF_vars(StopDone(c))

FairSpec == InitRequests /\ [][NextRequests]_vars /\ Fairness

\* A daemon on which nothing is started.
QuietPlan == [graph |-> Fork, boot |-> FALSE, targets |-> <<>>, stops |-> 0]

\* Tasks call wait_on_status on a cell of a freshly constructed graph.
InitWait ==
    /\ plan = QuietPlan
    /\ Constructed
    /\ WaitIdle
    /\ CtlIdle

NextWait ==
    \/ \E w \in Waiters : WCall(w)
    \/ \E w \in Waiters : WLock(w)
    \/ \E w \in Waiters : WCheck(w)
    \/ \E w \in Waiters : WWake(w)
    \/ \E w \in Waiters : WRelock(w)
    \/ \E new_status \in ServiceStatus : WChangeCall(new_status)
    \/ WChangeWrite
    \/ WChangeStatus

SpecWait == InitWait /\ [][NextWait]_vars

\* One run of enable or of disable on a graph file.  enable requires at
\* least one service and takes neither a runlevel nor --atomic-changes.
Invocations(before) ==
    {Invocation("enable", services, FALSE, "Default", before) :
        services \in ArgLists \ {<<>>}}
    \cup {Invocation("disable", services, atomic_changes, runlevel, before) :
            services \in ArgLists, atomic_changes \in BOOLEAN, runlevel \in RunLevels}

InitCtl ==
    /\ plan = QuietPlan
    /\ Constructed
    /\ WaitIdle
    /\ file \in Files
    /\ ctl \in Invocations(file)
    /\ ipc = <<>>
    /\ stdout = <<>>

NextCtl ==
    \/ CheckDuplicates
    \/ EnableRead
    \/ \E parsed, added \in BOOLEAN : EnableAdd(parsed, added)
    \/ \E outcome \in WriteOutcomes : EnableWrite(outcome)
    \/ DisableRead
    \/ DisableAtomic
    \/ DisableEach
    \/ DisableNone
    \/ \E outcome \in WriteOutcomes : DisableWrite(outcome)
    \/ \E reachable \in BOOLEAN : DisableConnect(reachable)
    \/ \E outcome \in SendOutcomes : DisableSend(outcome)
    \/ \E outcome \in RecvOutcomes : DisableRecv(outcome)

SpecCtl == InitCtl /\ [][NextCtl]_vars

TypeOK ==
    /\ plan \in Plans
    /\ node \in Graphs
    /\ status \in [Services -> ServiceStatus]
    /\ last_status \in [Services -> ServiceStatus \cup {None}]
    /\ \A c \in Services : waiters[c] \subseteq Tasks
    /\ executors \in [Services -> Nat]
    /\ rundir \subseteq Services
    /\ tstate \in [Tasks -> {"idle", "running", "done", "panicked"}]
    /\ writer \in BOOLEAN
    /\ queued \in BOOLEAN
    /\ \A c \in Services :
          /\ service_file[c].content \in {"absent", "empty", "partial", "written"}
          /\ service_file[c].writes \in Nat

(***************************************************************************)
(* Properties.                                                             *)
(***************************************************************************)
\* The step spawns an executor child for cell c.
Spawns(c) == executors'[c] > executors[c]

\* The direct dependencies of c.
Deps(c) == {Dependencies(c)[i] : i \in DOMAIN Dependencies(c)}

\* C1: an executor is spawned for a service only at a moment when every
\* direct dependency of the service has status Up.
C1_LaunchOnlyWhenDepsUp ==
    [][\A c \in Services : Spawns(c) => \A d \in Deps(c) : status[d] = "Up"]_vars

\* C2: a service one of whose direct dependencies has reached Down finishes
\* its start without an executor being spawned for it.
C2_NoLaunchWhenDepDown ==
    [][\A c \in Services :
          (\E d \in Deps(c) : status[d] = "Down") => ~Spawns(c)]_vars

\* C3: concurrent start requests on a cell spawn at most one executor child
\* for it: no cell has two children that have not reported yet.
C3_AtMostOneChild == \A c \in Services : executors[c] <= 1

\* C4: when start_all_services has returned, every service that should start
\* is Up or Down.
C4_ReturnedMeansSettled ==
    main.pc = "returned" =>
        \A c \in Services : ShouldStart(c) => status[c] \in {"Up", "Down"}

\* C5: last_status is never Starting or Stopping, and a step that changes
\* last_status sets it to the previous status, which is not a transient one.
C5_LastStatusSkipsTransient ==
    [][\A c \in Services :
          /\ last_status'[c] \notin {"Starting", "Stopping"}
          /\ last_status'[c] # last_status[c] =>
                /\ status[c] \notin {"Starting", "Stopping"}
                /\ last_status'[c] = status[c]]_vars

\* C5 witness: without start_all_services a cell reaches Up only through
\* Starting; it is Up and its last_status is still the Reset recorded before.
C5_Witness ==
    \E c \in Services :
        ~plan.boot /\ status[c] = "Up" /\ last_status[c] = "Reset"

\* C6 as stated: last_status is unset or one of the terminal statuses Up and
\* Down; it never holds Reset.
C6_LastStatusTerminal ==
    \A c \in Services : last_status[c] \in {None, "Up", "Down"}

\* C6 amended: last_status is unset or one of Reset, Up and Down.
C6_LastStatusNotTransient ==
    \A c \in Services : last_status[c] \in {None, "Reset", "Up", "Down"}

\* C6 witness: a cell that has settled and whose last_status is Reset.
C6_Witness ==
    \E c \in Services : status[c] \in {"Up", "Down"} /\ last_status[c] = "Reset"

\* The six transitions of the state machine.
SixTransitions ==
    {<<"Reset", "Starting">>, <<"Starting", "Up">>, <<"Starting", "Down">>,
     <<"Up", "Stopping">>, <<"Stopping", "Down">>, <<"Down", "Starting">>}

\* C7: every status change start_service performs is one of the six
\* transitions: it moves a cell to Starting only from Reset or Down.
C7_StartOnlyFromResetOrDown ==
    [][\A t \in Tasks :
          At(t, "ss_change") /\ stack'[t] # stack[t] =>
              <<status[Top(t).cell], status'[Top(t).cell]>> \in SixTransitions]_vars

\* C8: no task holds guards of two different cells, and no task holds a
\* graph guard acquired after a cell guard it still holds.
C8_LockDiscipline ==
    \A t \in AllTasks :
        /\ Cardinality({g.res : g \in HeldBy(t)} \cap Services) <= 1
        /\ \A i, j \in DOMAIN held[t] :
              i < j /\ held[t][i].res \in Services => held[t][j].res # "graph"

\* C8 witness: a task inside a nested start holds two graph read guards and,
\* acquired after them, one cell guard.
C8_Witness ==
    \E t \in Tasks, c \in Services :
        held[t] = <<GraphRead, GraphRead, CellRead(c)>>

\* The start of cell c is in flight: a start_service call on it has made the
\* transition to Starting and has not finished the launch.
InFlight(c) ==
    \E t \in RequestTasks : \E k \in DOMAIN stack[t] :
        stack[t][k].cell = c /\ stack[t][k].pc \notin {"ss_write", "ss_change"}

\* C9: while reload holds the graph write lock no start is in flight.
C9_NoStartInFlightUnderWriter ==
    writer => \A c \in Services : ~InFlight(c)

\* C10: no executor is spawned for a cell whose status has been changed to
\* Stopping.
C10_NoLaunchWhenStopping ==
    [][\A c \in Services : Spawns(c) => status[c] # "Stopping"]_vars

\* C11: wait_on_status returns only Up or Down, and what it returns is the
\* status of the cell at the moment of return, whatever change_status calls
\* and other waiters are interleaved with it.
C11_WaitReturnsTerminal ==
    [][\A w \in Waiters :
          wpc[w] # "returned" /\ wpc'[w] = "returned" =>
              /\ wret'[w] \in {"Up", "Down"}
              /\ wret'[w] = status'[WaitCell]]_vars

\* C11 witness: two waiters have returned different statuses, and the cell
\* has left the terminal statuses since.
C11_Witness ==
    /\ \A w \in Waiters : wpc[w] = "returned"
    /\ \E v, w \in Waiters : wret[v] = "Up" /\ wret[w] = "Down"
    /\ status[WaitCell] = "Stopping"

\* C12: no executor is spawned and no runtime service directory is written
\* for a Bundle or a Virtual service.
C12_NoLaunchForGroups ==
    \A c \in Services :
        node[c].kind \in {"Bundle", "Virtual"} => executors[c] = 0 /\ c \notin rundir

\* C12 witness: a bundle was started as a dependency, start_service on it
\* has returned, and the task that started it now waits for its status.
C12_Witness ==
    \E t \in RequestTasks :
        /\ At(t, "gs_wait")
        /\ node[Dep(t)].kind = "Bundle"
        /\ status[Dep(t)] = "Starting"
        /\ last_status[Dep(t)] = "Reset"
        /\ executors[Dep(t)] = 0

\* The positions of a task inside the launch of start_service_impl.
LaunchPcs == {"impl_create_dir", "impl_create", "impl_write", "impl_spawn"}

\* C13: a launch that fails is recovered locally: a step that ends the
\* launch without spawning the executor leaves the cell Down and does not
\* take down the task that runs it.
C13_LaunchFailureRecovered ==
    [][\A t \in Tasks :
          (/\ tstate[t] = "running" /\ stack[t] # <<>> /\ Top(t).pc \in LaunchPcs
           /\ Len(stack'[t]) # Len(stack[t])
           /\ ~Spawns(Top(t).cell)) =>
              status'[Top(t).cell] = "Down" /\ tstate'[t] # "panicked"]_vars

\* The results of disable on a service that is not enabled, has another
\* runlevel than the given one, or cannot be removed.
Refusals ==
    {"the service is not enabled", "service must be of the runlevel",
     "unable to remove services", "unable to disable service"}

\* Service s of graph g cannot be disabled at the given runlevel.
Refused(g, s, runlevel) ==
    \/ s \notin g
    \/ Catalog[s].runlevel # runlevel
    \/ \E n \in g : n # s /\ s \in Catalog[n].dependencies

\* Some service of the list is not enabled or has another runlevel, or the
\* listed services cannot be removed together.
RefusedTogether(g, services, runlevel) ==
    \/ \E s \in Listed(services) : s \notin g \/ Catalog[s].runlevel # runlevel
    \/ \E n \in g \ Listed(services) : Catalog[n].dependencies \cap Listed(services) # {}

\* C14: disable --atomic-changes is all-or-nothing on the persisted graph.
\* A finished run that got as far as the graph, when a listed service is
\* not enabled, has another runlevel or cannot be removed, has failed and
\* left the file exactly as it was; otherwise it has written the graph
\* without any of the listed services, or has failed and left the file
\* exactly as it was.
C14_AtomicAllOrNothing ==
    (/\ ctl.cmd = "disable" /\ ctl.atomic_changes /\ ctl.pc = "done"
     /\ ctl.before.exists /\ ctl.before.intact /\ ~Duplicated(ctl.services)
     /\ ctl.services # <<>>) =>
        IF RefusedTogether(ctl.before.nodes, ctl.services, ctl.runlevel)
        THEN ctl.result \in Refusals /\ file = ctl.before /\ ~ctl.wrote
        ELSE \/ /\ file = GraphFile(ctl.before.nodes \ Listed(ctl.services))
                /\ ctl.wrote
             \/ /\ ctl.result # "Ok"
                /\ file = ctl.before

\* The same name occurs at two different positions of the list.
HasRepeat(services) ==
    \E p, q \in DOMAIN services : p # q /\ services[p] = services[q]

\* C15: enable and disable fail with 'duplicated service found' exactly on
\* the lists in which a name occurs twice, and then the graph file has
\* been neither read nor written.
C15_DuplicatesRejected ==
    ctl.cmd \in {"enable", "disable"} =>
        /\ ctl.result = "duplicated service found" <=>
              (ctl.pc # "check" /\ HasRepeat(ctl.services))
        /\ ctl.result = "duplicated service found" =>
              ctl.pc = "done" /\ ~ctl.read /\ ~ctl.wrote /\ file = ctl.before

\* C15 witness: a list of three whose first and last names are the same was
\* rejected.
C15_Witness ==
    /\ ctl.result = "duplicated service found"
    /\ Len(ctl.services) = 3
    /\ ctl.services[1] = ctl.services[3]
    /\ ctl.services[1] # ctl.services[2]

\* C16: a finished run that has rewritten the graph file has tried to reach
\* the daemon to send ReloadGraph.
C16_ReloadAfterWrite ==
    ctl.pc = "done" /\ ctl.wrote => ctl.connects = 1

\* C20: disable without --atomic-changes takes the services in argument
\* order; the round on the first service that is refused ends the run with
\* a failure, and a run that ended so has not rewritten the graph file and
\* has sent nothing to the daemon: the services it reported as disabled,
\* the ones listed before the refused one, are still in the file.
C20_FirstRefusalEndsRun ==
    [][(ctl.cmd = "disable" /\ ~ctl.atomic_changes) =>
          /\ (/\ ctl.pc = "each" /\ ctl.i <= Len(ctl.services) /\ ctl' # ctl
               /\ Refused(ctl.graph, ctl.services[ctl.i], ctl.runlevel)) =>
                 /\ ctl'.pc = "done" /\ ctl'.result \in Refusals
                 /\ stdout' = SubSeq(ctl.services, 1, ctl.i - 1)
          /\ (ctl'.pc = "done" /\ ctl'.result \in Refusals) =>
                 /\ file' = ctl.before /\ ~ctl'.wrote
                 /\ ipc' = <<>> /\ ctl'.connects = 0
                 /\ Listed(stdout') \subseteq file'.nodes]_vars

\* C20 witness: the run has reported a service as disabled, then failed on
\* a later one; the reported service is still in the graph file.
C20_Witness ==
    /\ ctl.cmd = "disable" /\ ~ctl.atomic_changes /\ ctl.pc = "done"
    /\ ctl.result \in Refusals
    /\ stdout # <<>>
    /\ Listed(stdout) \subseteq file.nodes

\* Task t runs start_dependencies of a service that has c as a direct
\* dependency: the futures of the dependencies have been collected.
InStartDependencies(t, c) ==
    \E k \in DOMAIN stack[t] :
        /\ stack[t][k].pc \in {"sd_graph", "sd_dep_read", "sd_check", "sd_ret"}
        /\ c \in Deps(stack[t][k].cell)

\* C17: a direct dependency that needs starting is moved to Starting
\* whatever becomes of the start of its siblings, as long as the task that
\* starts them lives and no reload asks for the graph lock: a sibling whose
\* start blocks does not prevent it.
C17_SiblingsStartIndependently ==
    \A t \in RequestTasks, c \in Services :
        (InStartDependencies(t, c) /\ status[c] = "Reset")
            ~> (status[c] # "Reset" \/ tstate[t] = "panicked" \/ queued \/ writer)

\* C18: get_status on a dependency that is not in a terminal status waits
\* and then returns the terminal status: the step after the wait does not
\* panic.
C18_GetStatusReturnsAfterWait ==
    [][\A t \in Tasks :
          At(t, "gs_unwrap") /\ stack'[t] # stack[t] => tstate'[t] # "panicked"]_vars

\* C19: an executor is spawned for a cell only while the status of the cell
\* is Starting.
C19_LaunchOnlyWhenStarting ==
    [][\A c \in Services : Spawns(c) => status[c] = "Starting"]_vars

=============================================================================
